---- MODULE Spec2Model ----
(***************************************************************************)
(* Model of the EHR backend's visit lifecycle and identifier generation:   *)
(* the visit service (create_visit, update_visit, update_status,           *)
(* cancel_visit, start_consultation, complete_consultation), the patient   *)
(* service (create_patient, delete_patient), the order service             *)
(* (create_order, delete_order) and the three number generators.           *)
(*                                                                         *)
(* Every request handler runs in its own database session.  A handler is   *)
(* split at the points where the store becomes visible to other sessions:  *)
(* the SELECT statements that read committed rows, and the final commit    *)
(* that flushes the session's changes.  Between the two, other requests    *)
(* may run (several workers, READ COMMITTED, no row lock, no version       *)
(* column).                                                                *)
(***************************************************************************)
EXTENDS Integers, Sequences, FiniteSets, TLC

\* ------------------------------------------------------------------ bounds
Workers == {"w1", "w2"}
Users == {"u1", "u2"}
\* Each worker serves the requests of one signed-in user (current_user).
UserOf == [ w \in Workers |-> IF w = "w1" THEN "u1" ELSE "u2" ]
GhostUser == "ghost"
Reasons == {"r1", "r2"}
MaxVisits == 2
MaxLifecycleVisits == 1
MaxPatients == 2
MaxOrders == 2
MaxOps == 4
MaxTime == 1
MaxYearSteps == 1
SeedPatients == 1
CapHeadroom == 1
MaxQueueVisits == 2
MaxNotes == 2
MaxDiagnoses == 2
MaxStatsVisits == 2

\* ------------------------------------------------------- program constants
StartYear == 2026
TicksPerDay == 2
FormatWidth == 5
MaxSequence == 99999

\* Optional values: None is the empty tuple, Some(x) the one-element tuple.
None == << >>
Some(x) == << x >>
IsNone(o) == o = None
Get(o) == o[1]

\* ---------------------------------------------------------------- strings
\* Decimal digits of a natural number, most significant first (str(n)).
RECURSIVE Digits(_)
Digits(n) == IF n < 10 THEN << n >> ELSE Append(Digits(n \div 10), n % 10)

\* Left zero padding to a minimum width: f"{n:0Wd}" never truncates.
RECURSIVE ZeroPad(_, _)
ZeroPad(ds, w) == IF Len(ds) >= w THEN ds ELSE ZeroPad(<< 0 >> \o ds, w)

\* int("00042")
RECURSIVE ParseInt(_)
ParseInt(ds) ==
    IF Len(ds) = 0 THEN 0
    ELSE 10 * ParseInt(SubSeq(ds, 1, Len(ds) - 1)) + ds[Len(ds)]

\* Character-wise string order of two digit strings (a proper prefix is less).
RECURSIVE StrLess(_, _)
StrLess(a, b) ==
    IF Len(a) = 0 THEN Len(b) > 0
    ELSE IF Len(b) = 0 THEN FALSE
    ELSE IF a[1] # b[1] THEN a[1] < b[1]
    ELSE StrLess(Tail(a), Tail(b))

\* f"{PREFIX}-{year}-{n:05d}": the three dash-separated parts of the string.
FormatId(prefix, yr, n) ==
    [prefix |-> prefix, year |-> yr, digits |-> ZeroPad(Digits(n), FormatWidth)]

\* column LIKE 'PREFIX-YYYY-%'
Like(id, prefix, yr) == id.prefix = prefix /\ id.year = yr

\* int(number.split('-')[-1])
SeqOf(id) == ParseInt(id.digits)

\* ORDER BY column: character-wise order of the whole identifier string.
IdLess(a, b) ==
    \/ a.year < b.year
    \/ a.year = b.year /\ StrLess(a.digits, b.digits)

\* ------------------------------------------------------------------- state
VARIABLES year, clock, visits, patients, orders, notes, diagnoses, req, last,
          nops

vars ==
    << year, clock, visits, patients, orders, notes, diagnoses, req, last,
       nops >>

\* ------------------------------------------------------------ enumerations
REGISTERED == "registered"
WAITING == "waiting"
IN_PROGRESS == "in_progress"
COMPLETED == "completed"
CANCELLED == "cancelled"

VisitStatus == { REGISTERED, WAITING, IN_PROGRESS, COMPLETED, CANCELLED }

NORMAL == "normal"
URGENT == "urgent"
EMERGENCY == "emergency"

Priority == { NORMAL, URGENT, EMERGENCY }

\* VisitType: the two types the requests of the model use.
CONSULTATION == "consultation"
FOLLOW_UP == "follow_up"

\* date.today() when the clock reads t.
DateOf(t) == t \div TicksPerDay

\* Variant: a registered visit may go straight to in_progress.
ALLOWED_STATUS_TRANSITIONS_SkipWaiting ==
    [ s \in VisitStatus |->
        CASE s = REGISTERED -> { WAITING, IN_PROGRESS, CANCELLED }
          [] s = WAITING -> { IN_PROGRESS, CANCELLED }
          [] s = IN_PROGRESS -> { COMPLETED, CANCELLED }
          [] s = COMPLETED -> { }
          [] s = CANCELLED -> { } ]

\* Variant: a consultation in progress can no longer be cancelled.
ALLOWED_STATUS_TRANSITIONS_NoLateCancel ==
    [ s \in VisitStatus |->
        CASE s = REGISTERED -> { WAITING, CANCELLED }
          [] s = WAITING -> { IN_PROGRESS, CANCELLED }
          [] s = IN_PROGRESS -> { COMPLETED }
          [] s = COMPLETED -> { }
          [] s = CANCELLED -> { } ]

ALLOWED_STATUS_TRANSITIONS ==
    [ s \in VisitStatus |->
        CASE s = REGISTERED -> { WAITING, CANCELLED }
          [] s = WAITING -> { IN_PROGRESS, CANCELLED }
          [] s = IN_PROGRESS -> { COMPLETED, CANCELLED }
          [] s = COMPLETED -> { }
          [] s = CANCELLED -> { } ]

validate_status_transition(current, new) ==
    new \in ALLOWED_STATUS_TRANSITIONS[current]

\* Python truthiness of an optional string: None and "" are falsy.
Truthy(o) == ~IsNone(o) /\ Get(o) # ""

\* --------------------------------------------------------------- generators
\* Variant: the count itself is used as the next sequence value.
VisitNumberGenerator_generate_NoIncrement(rows, yr) ==
    LET count == Len(SelectSeq(rows,
                       LAMBDA row : Like(row.visit_number, "VIS", yr)))
    IN  FormatId("VIS", yr, count)

\* SELECT count(id) WHERE visit_number LIKE 'VIS-<year>-%', then count + 1.
VisitNumberGenerator_generate(rows, yr) ==
    LET count == Len(SelectSeq(rows,
                       LAMBDA row : Like(row.visit_number, "VIS", yr)))
    IN  FormatId("VIS", yr, count + 1)

\* Variant: the count is taken over the rows of every year.
MRNGenerator_generate_AllYears(rows, yr) ==
    LET count == Len(rows)
    IN  FormatId("CLI", yr, count + 1)

\* SELECT count(id) WHERE mrn LIKE 'CLI-<year>-%', then count + 1.
MRNGenerator_generate(rows, yr) ==
    LET count == Len(SelectSeq(rows, LAMBDA row : Like(row.mrn, "CLI", yr)))
    IN  FormatId("CLI", yr, count + 1)

\* ORDER BY <column> DESC LIMIT 1 over the identifiers matching the pattern.
LastNumber(ids) ==
    CHOOSE a \in ids : \A b \in ids : a = b \/ IdLess(b, a)

generate_order_number(rows, yr) ==
    LET ids == { rows[i].order_number : i \in
                   { j \in DOMAIN rows : Like(rows[j].order_number, "ORD", yr) } }
    IN  IF ids # {} THEN FormatId("ORD", yr, SeqOf(LastNumber(ids)) + 1)
        ELSE FormatId("ORD", yr, 1)

generate_accession_number(rows, yr) ==
    LET ids == { rows[i].accession_number : i \in
                   { j \in DOMAIN rows : Like(rows[j].accession_number, "ACC", yr) } }
    IN  IF ids # {} THEN FormatId("ACC", yr, SeqOf(LastNumber(ids)) + 1)
        ELSE FormatId("ACC", yr, 1)

\* A creation that would queue the visit at once (status waiting).
NewVisit_Waiting(num, pid, doc, t, data) ==
    [ visit_number |-> num, patient_id |-> pid, assigned_doctor_id |-> doc,
      status |-> WAITING, check_in_time |-> Some(t),
      consultation_start_time |-> None, consultation_end_time |-> None,
      cancellation_reason |-> None, updated_by |-> None, is_deleted |-> FALSE,
      priority |-> data.priority, visit_date |-> data.visit_date,
      visit_type |-> data.visit_type ]

\* ------------------------------------------------------------------ rows
\* Visit(visit_number=..., status=REGISTERED, check_in_time=utcnow(), **data)
NewVisit(num, pid, doc, t, data) ==
    [ visit_number |-> num, patient_id |-> pid, assigned_doctor_id |-> doc,
      status |-> REGISTERED, check_in_time |-> Some(t),
      consultation_start_time |-> None, consultation_end_time |-> None,
      cancellation_reason |-> None, updated_by |-> None, is_deleted |-> FALSE,
      priority |-> data.priority, visit_date |-> data.visit_date,
      visit_type |-> data.visit_type ]

\* The creation data of a request that leaves priority and visit_date to
\* their defaults (normal, today).
DefaultVisitData(t) ==
    { [ priority |-> NORMAL, visit_date |-> DateOf(t),
        visit_type |-> CONSULTATION ] }

\* Creation data with any priority, dated today or the day after.
AnyVisitData(t) ==
    [ priority : Priority, visit_date : { DateOf(t), DateOf(t) + 1 },
      visit_type : { CONSULTATION } ]

\* Creation data with one of two visit types.
TypedVisitData(t) ==
    [ priority : { NORMAL }, visit_date : { DateOf(t) },
      visit_type : { CONSULTATION, FOLLOW_UP } ]

NewPatient(mrn, phone) == [ mrn |-> mrn, phone |-> phone, is_deleted |-> FALSE ]

NewOrder(num, acc, pid, vid) ==
    [ order_number |-> num, accession_number |-> acc, patient_id |-> pid,
      visit_id |-> vid, is_deleted |-> FALSE ]

\* The UPDATE a session flushes at commit: only the attributes whose value
\* differs from the value loaded by the session are written; every other
\* column keeps what is stored at commit time.
Flush(stored, loaded, obj) ==
    [ c \in DOMAIN stored |-> IF obj[c] # loaded[c] THEN obj[c] ELSE stored[c] ]

\* ------------------------------------------------------------- requests
\* A worker's request: the operation and its inputs, the position in the
\* handler (pc), and what its session holds (the status it read, the row as
\* loaded, the modified object, the generated numbers).
Idle ==
    [ op |-> "none", pc |-> "idle", id |-> 0, target |-> "none",
      reason |-> None, doctor |-> None, fields |-> { }, num |-> None,
      acc |-> None, from |-> "none", loaded |-> None, obj |-> None,
      user |-> "none", filter |-> None, range |-> << >>, body |-> << >> ]

\* The response to a finished request: its operation and inputs, the status
\* it read, the result and, for a query, the body returned.
Response(r, res) ==
    [ op |-> r.op, id |-> r.id, target |-> r.target, reason |-> r.reason,
      from |-> r.from, result |-> res, filter |-> r.filter,
      range |-> r.range, body |-> r.body ]

NoResponse == Response(Idle, "none")

InFlight(w) == req[w].pc # "idle"

\* The worker has no request running and can take the next one.
Free(w) == req[w].pc = "idle"

\* No response is being observed: the next step of a request can run.
Quiet == last = NoResponse

\* The request of worker w ends in its first step with an error, or goes on
\* as r (r.pc says where).  nops counts the requests that went on.
Proceed(w, r, err) ==
    IF err # "none"
      THEN /\ req' = [ req EXCEPT ![w] = Idle ]
           /\ last' = Response(r, err)
           /\ UNCHANGED nops
      ELSE /\ nops < MaxOps
           /\ req' = [ req EXCEPT ![w] = r ]
           /\ nops' = nops + 1
           /\ UNCHANGED last

\* The request of worker w ends with result res.
Finish(w, res) ==
    /\ req' = [ req EXCEPT ![w] = Idle ]
    /\ last' = Response(req[w], res)

\* Rows a table will hold once the creations in flight have committed.
Pending(op) == Cardinality({ w \in Workers : req[w].op = op /\ InFlight(w) })

ActiveUser(u) == u \in Users

DoctorInputs == { None } \cup { Some(u) : u \in Users \cup { GhostUser } }
ReasonInputs == { None, Some("") } \cup { Some(r) : r \in Reasons }
Phones == { "p1", "p2" }

\* ------------------------------------------------------------------- Init
\* The database after the migrations and seed_patients: no visit, no order,
\* the seeded patients CLI-2026-0000k.
Init ==
    /\ year = StartYear
    /\ clock = 0
    /\ visits = << >>
    /\ patients = [ k \in 1..SeedPatients |->
                      NewPatient(FormatId("CLI", StartYear, k), "p1") ]
    /\ orders = << >>
    /\ notes = << >>
    /\ diagnoses = << >>
    /\ req = [ w \in Workers |-> Idle ]
    /\ last = NoResponse
    /\ nops = 0

\* ------------------------------------------------------------ create_visit
\* A creation that would not look at the assigned doctor.
CreateVisitError_PatientOnly(pid, doc) ==
    IF pid = 0 \/ patients[pid].is_deleted THEN "NotFound" ELSE "none"

\* The error create_visit raises before it generates a number: 404 for a
\* patient that is missing or soft-deleted, 404 for an assigned doctor that
\* is missing or inactive; "none" if it goes on.
CreateVisitError(pid, doc) ==
    IF pid = 0 \/ patients[pid].is_deleted THEN "NotFound"
    ELSE IF ~IsNone(doc) /\ ~ActiveUser(Get(doc)) THEN "NotFound"
    ELSE "none"

\* Patient and doctor checks, then VisitNumberGenerator.generate and the
\* construction of the Visit object (check_in_time = utcnow()).  cap bounds
\* the number of visit rows, data is the creation data to choose from.
CreateVisitGenerate(w, cap, data) ==
    /\ Quiet
    /\ Free(w)
    /\ Len(visits) + Pending("create_visit") < cap
    /\ LET num == VisitNumberGenerator_generate(visits, year)
       IN  \E pid \in 0..Len(patients), doc \in DoctorInputs, d \in data :
             LET r == [ Idle EXCEPT !.op = "create_visit", !.pc = "insert",
                          !.id = pid, !.doctor = doc, !.num = Some(num),
                          !.obj = Some(NewVisit(num, pid, doc, clock, d)) ]
                 err == CreateVisitError(pid, doc)
             IN  Proceed(w, IF err = "none" THEN r
                            ELSE [ Idle EXCEPT !.op = "create_visit" ], err)
    /\ UNCHANGED << year, clock, visits, patients, orders, notes, diagnoses >>

\* db.add(visit); commit: the unique index ix_visits_visit_number rejects a
\* duplicate number (IntegrityError, not handled: the request fails).
CreateVisitCommit(w) ==
    /\ Quiet
    /\ req[w].op = "create_visit" /\ req[w].pc = "insert"
    /\ IF SelectSeq(visits, LAMBDA row : row.visit_number = Get(req[w].num))
            # << >>
         THEN /\ Finish(w, "IntegrityError")
              /\ UNCHANGED visits
         ELSE /\ visits' = Append(visits, Get(req[w].obj))
              /\ Finish(w, "ok")
    /\ UNCHANGED << year, clock, patients, orders, nops, notes, diagnoses >>

\* ----------------------------------------------------------- update_status
\* Variant: only an absent reason is rejected, an empty one passes.
UpdateStatusError_NoneOnly(visit, new_status, reason) ==
    IF ~validate_status_transition(visit.status, new_status)
      THEN "InvalidTransition"
    ELSE IF new_status = CANCELLED /\ IsNone(reason)
      THEN "MissingReason"
    ELSE "none"

\* The error update_status raises for a loaded visit, "none" if it goes on.
UpdateStatusError(visit, new_status, reason) ==
    IF ~validate_status_transition(visit.status, new_status)
      THEN "InvalidTransition"
    ELSE IF new_status = CANCELLED /\ ~Truthy(reason)
      THEN "MissingReason"
    ELSE "none"

\* An update_status that would stamp the end time on entering in_progress and
\* the start time on completion.
UpdateStatusApply_Swapped(visit, new_status, reason, user, now) ==
    [ visit EXCEPT
        !.status = new_status,
        !.updated_by = Some(user),
        !.consultation_end_time =
            IF new_status = IN_PROGRESS THEN Some(now) ELSE @,
        !.consultation_start_time =
            IF new_status = COMPLETED THEN Some(now) ELSE @,
        !.cancellation_reason =
            IF new_status = CANCELLED THEN reason ELSE @ ]

\* The assignments update_status makes on the session's visit object.
UpdateStatusApply(visit, new_status, reason, user, now) ==
    [ visit EXCEPT
        !.status = new_status,
        !.updated_by = Some(user),
        !.consultation_start_time =
            IF new_status = IN_PROGRESS THEN Some(now) ELSE @,
        !.consultation_end_time =
            IF new_status = COMPLETED THEN Some(now) ELSE @,
        !.cancellation_reason =
            IF new_status = CANCELLED THEN reason ELSE @ ]

\* get_visit: SELECT ... WHERE id = :id AND is_deleted = false
VisitFound(vid) == vid \in DOMAIN visits /\ ~visits[vid].is_deleted

\* A start_consultation that would assign no doctor.
AssignDoctor_Never(visit, doc) == visit

\* start_consultation before it calls update_status: the doctor is assigned
\* when the visit has none.  doc is None for the other callers.
AssignDoctor(visit, doc) ==
    IF ~IsNone(doc) /\ IsNone(visit.assigned_doctor_id)
      THEN [ visit EXCEPT !.assigned_doctor_id = doc ]
      ELSE visit

\* What the request has committed when update_status raises: the service has
\* no commit between the assignment of the doctor and the status check.
CommittedAtRaise_Assignment(loaded, pending) == pending

CommittedAtRaise(loaded, pending) == loaded

\* The session of a request that ends with an error is discarded: the row
\* keeps what was committed, the pending changes are lost.
RolledBack(committed, pending) == committed

\* The service part shared by every status-changing endpoint.  r carries the
\* request of worker w; pre is an error raised before the service is called;
\* doc is the doctor start_consultation assigns.
UpdateStatusStep(w, r, pre, user, doc) ==
    IF pre # "none" THEN Proceed(w, r, pre) /\ UNCHANGED visits
    ELSE IF ~VisitFound(r.id)
      THEN /\ Proceed(w, [ Idle EXCEPT !.op = r.op ], "NotFound")
           /\ UNCHANGED visits
    ELSE LET loaded == visits[r.id]
             v == AssignDoctor(loaded, doc)
             err == UpdateStatusError(v, r.target, r.reason)
         IN  /\ Proceed(w,
                  [ r EXCEPT !.pc = "commit", !.from = loaded.status,
                      !.loaded = Some(loaded),
                      !.obj = Some(UpdateStatusApply(v, r.target, r.reason,
                                                     user, clock)) ],
                  err)
             /\ visits' =
                  IF err = "none" THEN visits
                  ELSE [ visits EXCEPT ![r.id] =
                           RolledBack(CommittedAtRaise(loaded, v), v) ]

\* PATCH /visits/{id}/status
UpdateStatusRead(w) ==
    /\ Quiet
    /\ Free(w)
    /\ \E u \in { UserOf[w] }, vid \in 0..Len(visits), t \in VisitStatus,
          rsn \in ReasonInputs :
         UpdateStatusStep(w,
           [ Idle EXCEPT !.op = "update_status", !.id = vid, !.target = t,
                         !.reason = rsn ],
           "none", u, None)
    /\ UNCHANGED << year, clock, patients, orders, notes, diagnoses >>

\* DELETE /visits/{id}?reason=...: the query parameter is required with
\* min_length 1; cancel_visit then calls update_status with CANCELLED.
CancelVisitRead(w) ==
    /\ Quiet
    /\ Free(w)
    /\ \E u \in { UserOf[w] }, vid \in 0..Len(visits), rsn \in ReasonInputs :
         UpdateStatusStep(w,
           [ Idle EXCEPT !.op = "cancel_visit", !.id = vid,
                         !.target = CANCELLED, !.reason = rsn ],
           IF IsNone(rsn) \/ Get(rsn) = "" THEN "ValidationError" ELSE "none",
           u, None)
    /\ UNCHANGED << year, clock, patients, orders, notes, diagnoses >>

\* POST /visits/{id}/start: doc_id = doctor_id or current_user.id; the service
\* assigns it when the visit has no doctor, then calls update_status.
StartConsultationRead(w) ==
    /\ Quiet
    /\ Free(w)
    /\ \E u \in { UserOf[w] }, vid \in 0..Len(visits),
          doc \in { None } \cup { Some(d) : d \in Users } :
         LET doc_id == IF IsNone(doc) THEN Some(u) ELSE doc
         IN  UpdateStatusStep(w,
               [ Idle EXCEPT !.op = "start_consultation", !.id = vid,
                             !.target = IN_PROGRESS, !.doctor = doc ],
               "none", u, doc_id)
    /\ UNCHANGED << year, clock, patients, orders, notes, diagnoses >>

\* POST /visits/{id}/complete
CompleteConsultationRead(w) ==
    /\ Quiet
    /\ Free(w)
    /\ \E u \in { UserOf[w] }, vid \in 0..Len(visits) :
         UpdateStatusStep(w,
           [ Idle EXCEPT !.op = "complete_consultation", !.id = vid,
                         !.target = COMPLETED ],
           "none", u, None)
    /\ UNCHANGED << year, clock, patients, orders, notes, diagnoses >>

\* ------------------------------------------------------------ update_visit
\* Variant: only a completed visit is refused.
UpdateVisitError_CompletedOnly(visit, doc) ==
    IF visit.status \in { COMPLETED } THEN "ImmutableState"
    ELSE IF ~IsNone(doc) /\ ~ActiveUser(Get(doc)) THEN "NotFound"
    ELSE "none"

\* The error update_visit raises for a loaded visit, "none" if it goes on.
UpdateVisitError(visit, doc) ==
    IF visit.status \in { COMPLETED, CANCELLED } THEN "ImmutableState"
    ELSE IF ~IsNone(doc) /\ ~ActiveUser(Get(doc)) THEN "NotFound"
    ELSE "none"

\* PUT /visits/{id}: fields is the set of fields the request body sets
\* (model_dump(exclude_unset=True)), doctor the value of assigned_doctor_id.
UpdateVisitRead(w) ==
    /\ Quiet
    /\ Free(w)
    /\ \E u \in { UserOf[w] }, vid \in 0..Len(visits), doc \in DoctorInputs,
          fs \in { { }, { "assigned_doctor_id" } } :
         /\ (fs = { } => IsNone(doc))
         /\ LET r == [ Idle EXCEPT !.op = "update_visit", !.id = vid,
                                   !.doctor = doc, !.fields = fs ]
            IN  IF ~VisitFound(vid)
                  THEN Proceed(w, [ Idle EXCEPT !.op = r.op ], "NotFound")
                ELSE Proceed(w,
                  [ r EXCEPT !.pc = "commit", !.from = visits[vid].status,
                      !.loaded = Some(visits[vid]),
                      !.obj = Some([ visits[vid] EXCEPT
                          !.assigned_doctor_id =
                              IF "assigned_doctor_id" \in fs THEN doc ELSE @,
                          !.updated_by = Some(u) ]) ],
                  UpdateVisitError(visits[vid], doc))
    /\ UNCHANGED << year, clock, visits, patients, orders, notes, diagnoses >>

VisitWriters ==
    { "update_status", "cancel_visit", "start_consultation",
      "complete_consultation", "update_visit" }

\* await db.commit() of a request that modified a loaded visit.
VisitCommit(w) ==
    /\ Quiet
    /\ req[w].op \in VisitWriters /\ req[w].pc = "commit"
    /\ visits' = [ visits EXCEPT ![req[w].id] =
                     Flush(@, Get(req[w].loaded), Get(req[w].obj)) ]
    /\ Finish(w, "ok")
    /\ UNCHANGED << year, clock, patients, orders, nops, notes, diagnoses >>

\* ---------------------------------------------------------- create_patient
\* The patients table has a unique index on mrn.
MrnUnique == TRUE

\* MRNGenerator.generate, then the phone check against non-deleted patients.
CreatePatientGenerate(w) ==
    /\ Quiet
    /\ Free(w)
    /\ Len(patients) + Pending("create_patient") < MaxPatients
    /\ \E phone \in Phones :
         LET mrn == MRNGenerator_generate(patients, year)
             same == { i \in DOMAIN patients :
                         patients[i].phone = phone /\ ~patients[i].is_deleted }
         IN  Proceed(w,
               [ Idle EXCEPT !.op = "create_patient", !.pc = "insert",
                   !.num = Some(mrn), !.obj = Some(NewPatient(mrn, phone)) ],
               IF same # { } THEN "PhoneExists" ELSE "none")
    /\ UNCHANGED << year, clock, visits, patients, orders, notes, diagnoses >>

CreatePatientCommit(w) ==
    /\ Quiet
    /\ req[w].op = "create_patient" /\ req[w].pc = "insert"
    /\ IF MrnUnique /\ \E i \in DOMAIN patients :
                          patients[i].mrn = Get(req[w].num)
         THEN /\ Finish(w, "IntegrityError")
              /\ UNCHANGED patients
         ELSE /\ patients' = Append(patients, Get(req[w].obj))
              /\ Finish(w, "ok")
    /\ UNCHANGED << year, clock, visits, orders, nops, notes, diagnoses >>

\* DELETE /patients/{id}: soft delete.
DeletePatient(w) ==
    /\ Quiet
    /\ Free(w)
    /\ \E pid \in 0..Len(patients) :
         LET r == [ Idle EXCEPT !.op = "delete_patient", !.id = pid ]
         IN  IF pid = 0 \/ patients[pid].is_deleted
               THEN /\ last' = Response(r, "NotFound")
                    /\ UNCHANGED << patients, nops >>
               ELSE /\ nops < MaxOps
                    /\ patients' = [ patients EXCEPT ![pid].is_deleted = TRUE ]
                    /\ last' = Response(r, "ok")
                    /\ nops' = nops + 1
    /\ UNCHANGED << year, clock, visits, orders, req, notes, diagnoses >>

\* ------------------------------------------------------------ create_order
\* Patient and visit checks (db.get, no is_deleted filter), then
\* generate_order_number.  loaded holds the request's visit_id.
CreateOrderGenerate(w) ==
    /\ Quiet
    /\ Free(w)
    /\ Len(orders) + Pending("create_order") < MaxOrders
    /\ \E pid \in 0..Len(patients),
          vid \in { None } \cup { Some(v) : v \in 0..Len(visits) } :
         Proceed(w,
           [ Idle EXCEPT !.op = "create_order", !.pc = "gen_acc", !.id = pid,
               !.loaded = vid,
               !.num = Some(generate_order_number(orders, year)) ],
           IF pid = 0 THEN "NotFound"
           ELSE IF ~IsNone(vid) /\ Get(vid) = 0 THEN "NotFound"
           ELSE "none")
    /\ UNCHANGED << year, clock, visits, patients, orders, notes, diagnoses >>

\* generate_accession_number: a second SELECT of the same request.
CreateOrderAccession(w) ==
    /\ Quiet
    /\ req[w].op = "create_order" /\ req[w].pc = "gen_acc"
    /\ req' = [ req EXCEPT ![w] =
                  [ @ EXCEPT !.pc = "insert",
                      !.acc = Some(generate_accession_number(orders, year)) ] ]
    /\ UNCHANGED << year, clock, visits, patients, orders, last, nops,
                    notes, diagnoses >>

\* db.add(order); commit: order_number and accession_number are unique and
\* visit_id is NOT NULL in the Order model.
CreateOrderCommit(w) ==
    /\ Quiet
    /\ req[w].op = "create_order" /\ req[w].pc = "insert"
    /\ IF \/ \E i \in DOMAIN orders :
                \/ orders[i].order_number = Get(req[w].num)
                \/ orders[i].accession_number = Get(req[w].acc)
          \/ IsNone(req[w].loaded)
         THEN /\ Finish(w, "IntegrityError")
              /\ UNCHANGED orders
         ELSE /\ orders' = Append(orders,
                     NewOrder(Get(req[w].num), Get(req[w].acc), req[w].id,
                              Get(req[w].loaded)))
              /\ Finish(w, "ok")
    /\ UNCHANGED << year, clock, visits, patients, nops, notes, diagnoses >>

\* DELETE /orders/{id}: soft delete in the router.
DeleteOrder(w) ==
    /\ Quiet
    /\ Free(w)
    /\ \E oid \in 0..Len(orders) :
         LET r == [ Idle EXCEPT !.op = "delete_order", !.id = oid ]
         IN  IF oid = 0 \/ orders[oid].is_deleted
               THEN /\ last' = Response(r, "NotFound")
                    /\ UNCHANGED << orders, nops >>
               ELSE /\ nops < MaxOps
                    /\ orders' = [ orders EXCEPT ![oid].is_deleted = TRUE ]
                    /\ last' = Response(r, "ok")
                    /\ nops' = nops + 1
    /\ UNCHANGED << year, clock, visits, patients, req, notes, diagnoses >>

\* ----------------------------------------------------------------- queries
\* A ranking that would put urgent visits before emergency ones.
PriorityRank_UrgentFirst(p) ==
    CASE p = URGENT -> 1
      [] p = EMERGENCY -> 2
      [] OTHER -> 3

\* ORDER BY CASE WHEN priority = 'emergency' THEN 1
\*               WHEN priority = 'urgent' THEN 2 ELSE 3 END
PriorityRank(p) ==
    CASE p = EMERGENCY -> 1
      [] p = URGENT -> 2
      [] OTHER -> 3

\* check_in_time ASC: NULL sorts after every value.
TimeLeq(x, y) == IsNone(y) \/ (~IsNone(x) /\ Get(x) <= Get(y))

\* Row a may come before row b under the ORDER BY of the queue queries.
MayPrecede(a, b) ==
    \/ PriorityRank(a.priority) < PriorityRank(b.priority)
    \/ /\ PriorityRank(a.priority) = PriorityRank(b.priority)
       /\ TimeLeq(a.check_in_time, b.check_in_time)

\* The sequences that list every element of ids once.
Listings(ids) ==
    { s \in [ 1..Cardinality(ids) -> ids ] :
        \A i, j \in DOMAIN s : i # j => s[i] # s[j] }

\* The results the database may return for the selected ids: every listing
\* that respects the ORDER BY; rows equal on both keys come in any order.
OrderedListings(rows, ids) ==
    { s \in Listings(ids) :
        \A i, j \in DOMAIN s : i < j => MayPrecede(rows[s[i]], rows[s[j]]) }

\* A queue that would list today's visits of every status without a filter.
get_queue_AnyStatus(rows, today, status_filter) ==
    OrderedListings(rows,
      { i \in DOMAIN rows :
          /\ rows[i].visit_date = today
          /\ ~rows[i].is_deleted
          /\ (~IsNone(status_filter) => rows[i].status = Get(status_filter)) })

\* VisitService.get_queue: today's non-deleted visits with the status of the
\* filter, or registered and waiting when there is no filter.
get_queue(rows, today, status_filter) ==
    OrderedListings(rows,
      { i \in DOMAIN rows :
          /\ rows[i].visit_date = today
          /\ ~rows[i].is_deleted
          /\ IF ~IsNone(status_filter)
               THEN rows[i].status = Get(status_filter)
               ELSE rows[i].status \in { REGISTERED, WAITING } })

\* VisitService.get_doctor_visits: visit_date defaults to today.
get_doctor_visits(rows, today, doctor_id, visit_date, status_filter) ==
    OrderedListings(rows,
      { i \in DOMAIN rows :
          /\ rows[i].assigned_doctor_id = Some(doctor_id)
          /\ rows[i].visit_date
               = (IF IsNone(visit_date) THEN today ELSE Get(visit_date))
          /\ ~rows[i].is_deleted
          /\ (~IsNone(status_filter) => rows[i].status = Get(status_filter)) })

StatusFilters == { None } \cup { Some(st) : st \in VisitStatus }

DateInputs == { None, Some(DateOf(clock)), Some(DateOf(clock) + 1) }

\* GET /visits/queue
GetQueue(w) ==
    /\ Quiet
    /\ Free(w)
    /\ \E f \in StatusFilters :
         \E res \in get_queue(visits, DateOf(clock), f) :
           last' = Response([ Idle EXCEPT !.op = "get_queue", !.filter = f,
                                          !.body = res ], "ok")
    /\ UNCHANGED << year, clock, visits, patients, orders, req, nops,
                    notes, diagnoses >>

\* GET /visits/doctor/{doctor_id}
GetDoctorVisits(w) ==
    /\ Quiet
    /\ Free(w)
    /\ \E doc \in Users, d \in DateInputs, f \in StatusFilters :
         \E res \in get_doctor_visits(visits, DateOf(clock), doc, d, f) :
           last' = Response([ Idle EXCEPT !.op = "get_doctor_visits",
                                !.doctor = Some(doc), !.filter = f,
                                !.body = res ], "ok")
    /\ UNCHANGED << year, clock, visits, patients, orders, req, nops,
                    notes, diagnoses >>

\* Sum of f over a finite set of row indices.
RECURSIVE SumOver(_, _)
SumOver(f, ids) ==
    IF ids = { } THEN 0
    ELSE LET i == CHOOSE k \in ids : TRUE
         IN  f[i] + SumOver(f, ids \ { i })

\* SQL avg() of the values f[i], i in ids, as the exact fraction num/den;
\* NULL (None) over no rows.  One tick of the clock is one minute.
Avg(f, ids) ==
    IF ids = { } THEN None
    ELSE Some([ num |-> SumOver(f, ids), den |-> Cardinality(ids) ])

\* round(x, 1) of the fraction x >= 0, in tenths, ties to the even tenth.
Round1(x) ==
    LET twice == (20 * x.num) \div x.den
        exact == (20 * x.num) % x.den = 0
        down == twice \div 2
    IN  IF twice % 2 = 0 THEN down
        ELSE IF exact /\ down % 2 = 0 THEN down
        ELSE down + 1

\* round(avg, 1) if avg else None: a NULL and a zero average are both falsy.
RoundedOrNone(avg) ==
    IF ~IsNone(avg) /\ Get(avg).num # 0 THEN Some(Round1(Get(avg))) ELSE None

\* Rows of the base filter of get_visit_stats; both dates default to today.
StatsRows(rows, today, date_from, date_to) ==
    { i \in DOMAIN rows :
        /\ rows[i].visit_date
             >= (IF IsNone(date_from) THEN today ELSE Get(date_from))
        /\ rows[i].visit_date
             <= (IF IsNone(date_to) THEN today ELSE Get(date_to))
        /\ ~rows[i].is_deleted }

\* Rows whose wait can be computed, and rows whose duration can be computed.
WaitRows(rows, base) ==
    { i \in base : /\ ~IsNone(rows[i].check_in_time)
                   /\ ~IsNone(rows[i].consultation_start_time) }

DurationRows(rows, base) ==
    { i \in base : /\ ~IsNone(rows[i].consultation_start_time)
                   /\ ~IsNone(rows[i].consultation_end_time) }

\* VisitService.get_visit_stats: the two averages of the response.
get_visit_stats(rows, today, date_from, date_to) ==
    LET base == StatsRows(rows, today, date_from, date_to)
        wait == [ i \in WaitRows(rows, base) |->
                    Get(rows[i].consultation_start_time)
                      - Get(rows[i].check_in_time) ]
        duration == [ i \in DurationRows(rows, base) |->
                        Get(rows[i].consultation_end_time)
                          - Get(rows[i].consultation_start_time) ]
    IN  [ total |-> Cardinality(base),
          average_wait_time_minutes
            |-> RoundedOrNone(Avg(wait, DOMAIN wait)),
          average_consultation_minutes
            |-> RoundedOrNone(Avg(duration, DOMAIN duration)) ]

\* GET /visits/stats
GetVisitStats(w) ==
    /\ Quiet
    /\ Free(w)
    /\ \E df \in DateInputs, dt \in DateInputs :
         last' = Response([ Idle EXCEPT !.op = "get_visit_stats",
                              !.range = << df, dt >>,
                              !.body = get_visit_stats(visits, DateOf(clock),
                                                       df, dt) ], "ok")
    /\ UNCHANGED << year, clock, visits, patients, orders, req, nops,
                    notes, diagnoses >>

\* The rows of SELECT status, count(id) ... GROUP BY status as a dictionary:
\* one key for each status that has rows.
by_status(rows, base) ==
    [ s \in { rows[i].status : i \in base } |->
        Cardinality({ i \in base : rows[i].status = s }) ]

\* The rows of SELECT visit_type, count(id) ... GROUP BY visit_type.
by_type(rows, base) ==
    [ t \in { rows[i].visit_type : i \in base } |->
        Cardinality({ i \in base : rows[i].visit_type = t }) ]

\* The base filter of a running get_visit_stats request over the visits
\* committed now: every statement of the request reads the table anew.
StatsBase(w) ==
    StatsRows(visits, DateOf(clock), req[w].range[1], req[w].range[2])

\* GET /visits/stats, first statement: the dates are resolved (today by
\* default) and the total is counted.
StatsTotal(w) ==
    /\ Quiet
    /\ Free(w)
    /\ \E df \in DateInputs, dt \in DateInputs :
         LET from == IF IsNone(df) THEN Some(DateOf(clock)) ELSE df
             to == IF IsNone(dt) THEN Some(DateOf(clock)) ELSE dt
         IN  Proceed(w,
               [ Idle EXCEPT !.op = "get_visit_stats", !.pc = "by_status",
                   !.range = << from, to >>,
                   !.body =
                     [ total |-> Cardinality(StatsRows(visits, DateOf(clock),
                                                       from, to)),
                       by_status |-> << >>, by_type |-> << >>,
                       average_wait_time_minutes |-> None,
                       average_consultation_minutes |-> None ] ],
               "none")
    /\ UNCHANGED << year, clock, visits, patients, orders, notes, diagnoses >>

\* Second statement: the counts by status.
StatsByStatus(w) ==
    /\ Quiet
    /\ req[w].op = "get_visit_stats" /\ req[w].pc = "by_status"
    /\ req' = [ req EXCEPT ![w].pc = "by_type",
                  ![w].body.by_status = by_status(visits, StatsBase(w)) ]
    /\ UNCHANGED << year, clock, visits, patients, orders, notes, diagnoses,
                    last, nops >>

\* Third statement: the counts by type.
StatsByType(w) ==
    /\ Quiet
    /\ req[w].op = "get_visit_stats" /\ req[w].pc = "by_type"
    /\ req' = [ req EXCEPT ![w].pc = "wait",
                  ![w].body.by_type = by_type(visits, StatsBase(w)) ]
    /\ UNCHANGED << year, clock, visits, patients, orders, notes, diagnoses,
                    last, nops >>

\* Fourth statement: the average wait, rounded as the response rounds it.
StatsWait(w) ==
    /\ Quiet
    /\ req[w].op = "get_visit_stats" /\ req[w].pc = "wait"
    /\ LET ids == WaitRows(visits, StatsBase(w))
           wait == [ i \in ids |-> Get(visits[i].consultation_start_time)
                                     - Get(visits[i].check_in_time) ]
       IN  req' = [ req EXCEPT ![w].pc = "duration",
                      ![w].body.average_wait_time_minutes =
                          RoundedOrNone(Avg(wait, ids)) ]
    /\ UNCHANGED << year, clock, visits, patients, orders, notes, diagnoses,
                    last, nops >>

\* Fifth statement, the average duration, and the response.
StatsDuration(w) ==
    /\ Quiet
    /\ req[w].op = "get_visit_stats" /\ req[w].pc = "duration"
    /\ LET ids == DurationRows(visits, StatsBase(w))
           duration == [ i \in ids |-> Get(visits[i].consultation_end_time)
                           - Get(visits[i].consultation_start_time) ]
       IN  last' = Response(
                     [ req[w] EXCEPT !.body.average_consultation_minutes =
                                       RoundedOrNone(Avg(duration, ids)) ],
                     "ok")
    /\ req' = [ req EXCEPT ![w] = Idle ]
    /\ UNCHANGED << year, clock, visits, patients, orders, notes, diagnoses,
                    nops >>

\* ---------------------------------------------------------- clinical notes
\* ClinicalNote(visit_id, created_by, is_primary, ...): a new note is
\* unlocked and not deleted.  content stands for the SOAP text fields.
NewNote(vid, user, primary, text) ==
    [ visit_id |-> vid, created_by |-> user, is_primary |-> primary,
      content |-> text, is_locked |-> FALSE, locked_by |-> None,
      is_deleted |-> FALSE ]

NoteTexts == { "s1", "s2" }

\* The non-deleted primary notes of a visit.
PrimaryNotes(rows, vid) ==
    { i \in DOMAIN rows :
        /\ rows[i].visit_id = vid
        /\ rows[i].is_primary
        /\ ~rows[i].is_deleted }

\* create_note: for a primary note, SELECT the visit's non-deleted primary
\* notes; scalar_one_or_none() raises when it finds more than one row.
CreateNoteError(rows, vid, primary) ==
    IF ~primary THEN "none"
    ELSE IF Cardinality(PrimaryNotes(rows, vid)) > 1
      THEN "MultipleResultsFound"
    ELSE IF PrimaryNotes(rows, vid) # { } THEN "Conflict"
    ELSE "none"

\* POST /clinical-notes, up to the ClinicalNote object.  The acting user of
\* a clinical note request is any signed-in doctor: one user may have
\* several requests running.
CreateNoteRead(w) ==
    /\ Quiet
    /\ Free(w)
    /\ Len(notes) + Pending("create_note") < MaxNotes
    /\ \E u \in Users, vid \in 0..Len(visits), primary \in BOOLEAN,
          text \in NoteTexts :
         Proceed(w,
           [ Idle EXCEPT !.op = "create_note", !.pc = "insert", !.id = vid,
               !.user = u, !.obj = Some(NewNote(vid, u, primary, text)) ],
           CreateNoteError(notes, vid, primary))
    /\ UNCHANGED << year, clock, visits, patients, orders, notes, diagnoses >>

\* db.add(note); commit: visit_id is a foreign key to visits.
CreateNoteCommit(w) ==
    /\ Quiet
    /\ req[w].op = "create_note" /\ req[w].pc = "insert"
    /\ IF req[w].id \notin DOMAIN visits
         THEN /\ Finish(w, "IntegrityError")
              /\ UNCHANGED notes
         ELSE /\ notes' = Append(notes, Get(req[w].obj))
              /\ Finish(w, "ok")
    /\ UNCHANGED << year, clock, visits, patients, orders, diagnoses, nops >>

\* get_note_by_id: SELECT ... WHERE id = :id AND is_deleted = false
NoteFound(nid) == nid \in DOMAIN notes /\ ~notes[nid].is_deleted

\* lock_note: only the author locks and unlocks (403).
LockNoteError(note, user) ==
    IF note.created_by # user THEN "Forbidden" ELSE "none"

\* update_note and delete_note: 403 for a locked note, 403 for a user who is
\* not the author.
EditNoteError(note, user) ==
    IF note.is_locked THEN "Forbidden"
    ELSE IF note.created_by # user THEN "Forbidden"
    ELSE "none"

\* The part shared by the requests on a stored note: load it, check, modify
\* the session's object; the commit is a later step.
NoteStep(w, op, u, nid, err, obj) ==
    IF ~NoteFound(nid)
      THEN Proceed(w, [ Idle EXCEPT !.op = op ], "NotFound")
    ELSE Proceed(w,
           [ Idle EXCEPT !.op = op, !.pc = "commit", !.id = nid, !.user = u,
               !.loaded = Some(notes[nid]), !.obj = Some(obj) ],
           err)

\* PUT /clinical-notes/{id}
UpdateNoteRead(w) ==
    /\ Quiet
    /\ Free(w)
    /\ \E u \in Users, nid \in 0..Len(notes), text \in NoteTexts :
         NoteStep(w, "update_note", u, nid,
           IF NoteFound(nid) THEN EditNoteError(notes[nid], u)
           ELSE "none",
           IF NoteFound(nid) THEN [ notes[nid] EXCEPT !.content = text ]
           ELSE << >>)
    /\ UNCHANGED << year, clock, visits, patients, orders, notes, diagnoses >>

\* POST /clinical-notes/{id}/lock with body lock = true or false
LockNoteRead(w) ==
    /\ Quiet
    /\ Free(w)
    /\ \E u \in Users, nid \in 0..Len(notes), lock \in BOOLEAN :
         NoteStep(w, IF lock THEN "lock_note" ELSE "unlock_note", u, nid,
           IF NoteFound(nid) THEN LockNoteError(notes[nid], u)
           ELSE "none",
           IF NoteFound(nid)
             THEN [ notes[nid] EXCEPT
                      !.is_locked = lock,
                      !.locked_by = IF lock THEN Some(u) ELSE None ]
             ELSE << >>)
    /\ UNCHANGED << year, clock, visits, patients, orders, notes, diagnoses >>

\* DELETE /clinical-notes/{id}: soft delete.
DeleteNoteRead(w) ==
    /\ Quiet
    /\ Free(w)
    /\ \E u \in Users, nid \in 0..Len(notes) :
         NoteStep(w, "delete_note", u, nid,
           IF NoteFound(nid) THEN EditNoteError(notes[nid], u)
           ELSE "none",
           IF NoteFound(nid) THEN [ notes[nid] EXCEPT !.is_deleted = TRUE ]
           ELSE << >>)
    /\ UNCHANGED << year, clock, visits, patients, orders, notes, diagnoses >>

NoteWriters == { "update_note", "lock_note", "unlock_note", "delete_note" }

\* await db.commit() of a request that modified a loaded note.
NoteCommit(w) ==
    /\ Quiet
    /\ req[w].op \in NoteWriters /\ req[w].pc = "commit"
    /\ notes' = [ notes EXCEPT ![req[w].id] =
                    Flush(@, Get(req[w].loaded), Get(req[w].obj)) ]
    /\ Finish(w, "ok")
    /\ UNCHANGED << year, clock, visits, patients, orders, diagnoses, nops >>

\* --------------------------------------------------------------- diagnoses
PRIMARY == "primary"
SECONDARY == "secondary"

\* DiagnosisCreate.diagnosis_type is any string, DiagnosisUpdate's is the
\* enumeration DiagnosisType.
DiagnosisTypeInputs == { "primary", "PRIMARY", "secondary" }
DiagnosisType == { PRIMARY, SECONDARY }

\* str.lower() on the strings of the model.
Lower(str) ==
    CASE str = "PRIMARY" -> "primary"
      [] str = "Cough" -> "cough"
      [] str = "Cholera" -> "cholera"
      [] OTHER -> str

\* The rows of icd10_codes, and the codes and descriptions requests carry.
ICD10Codes == { "A00" }
CodeInputs == { None, Some("A00"), Some("Z99") }
Descriptions == { "cough", "Cough" }

\* len(description) < 10 for every description of the model, so a coded
\* diagnosis takes the description of its ICD-10 row.
ICD10Description(code) == IF code = "A00" THEN "Cholera" ELSE "unknown"

NewDiagnosis(vid, type, code, description) ==
    [ visit_id |-> vid, diagnosis_type |-> Lower(type), icd10_code |-> code,
      diagnosis_description |->
          IF IsNone(code) THEN description ELSE ICD10Description(Get(code)),
      is_deleted |-> FALSE ]

\* get_visit_diagnoses: the non-deleted diagnoses of a visit.
get_visit_diagnoses(rows, vid) ==
    { i \in DOMAIN rows : rows[i].visit_id = vid /\ ~rows[i].is_deleted }

\* The error create_diagnosis raises, "none" if it goes on: the visit exists;
\* no second primary; no duplicate code or free-text description; the code
\* is one of icd10_codes.
CreateDiagnosisError(rows, vid, type, code, description) ==
    LET existing == get_visit_diagnoses(rows, vid)
    IN  IF vid \notin DOMAIN visits THEN "NotFound"
        ELSE IF /\ Lower(type) = "primary"
                /\ \E d \in existing : Lower(rows[d].diagnosis_type) = "primary"
          THEN "BadRequest"
        ELSE IF /\ ~IsNone(code)
                /\ \E d \in existing : rows[d].icd10_code = code
          THEN "BadRequest"
        ELSE IF /\ IsNone(code)
                /\ \E d \in existing :
                     /\ IsNone(rows[d].icd10_code)
                     /\ Lower(rows[d].diagnosis_description)
                          = Lower(description)
          THEN "BadRequest"
        ELSE IF ~IsNone(code) /\ Get(code) \notin ICD10Codes
          THEN "BadRequest"
        ELSE "none"

\* POST /diagnoses, up to the Diagnosis object.
CreateDiagnosisRead(w) ==
    /\ Quiet
    /\ Free(w)
    /\ Len(diagnoses) + Pending("create_diagnosis") < MaxDiagnoses
    /\ \E vid \in 0..Len(visits), type \in DiagnosisTypeInputs,
          code \in CodeInputs, description \in Descriptions :
         Proceed(w,
           [ Idle EXCEPT !.op = "create_diagnosis", !.pc = "insert",
               !.id = vid,
               !.obj = Some(NewDiagnosis(vid, type, code, description)) ],
           CreateDiagnosisError(diagnoses, vid, type, code, description))
    /\ UNCHANGED << year, clock, visits, patients, orders, notes, diagnoses >>

\* db.add(diagnosis); commit
CreateDiagnosisCommit(w) ==
    /\ Quiet
    /\ req[w].op = "create_diagnosis" /\ req[w].pc = "insert"
    /\ diagnoses' = Append(diagnoses, Get(req[w].obj))
    /\ Finish(w, "ok")
    /\ UNCHANGED << year, clock, visits, patients, orders, notes, nops >>

\* get_diagnosis_by_id: SELECT ... WHERE id = :id AND is_deleted = false
DiagnosisFound(did) == did \in DOMAIN diagnoses /\ ~diagnoses[did].is_deleted

\* The error update_diagnosis raises for a loaded diagnosis: only the ICD-10
\* code of the request is validated.
UpdateDiagnosisError(rows, did, fs, type, code) ==
    IF ~IsNone(code) /\ Get(code) \notin ICD10Codes THEN "BadRequest"
    ELSE "none"

\* PUT /diagnoses/{id}: fs is the set of fields the body sets
\* (dict(exclude_unset=True)).
UpdateDiagnosisRead(w) ==
    /\ Quiet
    /\ Free(w)
    /\ \E did \in 0..Len(diagnoses), type \in DiagnosisType,
          code \in CodeInputs,
          fs \in SUBSET { "diagnosis_type", "icd10_code" } :
         /\ ("icd10_code" \notin fs => IsNone(code))
         /\ IF ~DiagnosisFound(did)
              THEN Proceed(w, [ Idle EXCEPT !.op = "update_diagnosis" ],
                           "NotFound")
            ELSE Proceed(w,
              [ Idle EXCEPT !.op = "update_diagnosis", !.pc = "commit",
                  !.id = did, !.fields = fs,
                  !.loaded = Some(diagnoses[did]),
                  !.obj = Some([ diagnoses[did] EXCEPT
                      !.diagnosis_type =
                          IF "diagnosis_type" \in fs THEN type ELSE @,
                      !.icd10_code =
                          IF "icd10_code" \in fs THEN code ELSE @ ]) ],
              UpdateDiagnosisError(diagnoses, did, fs, type, code))
    /\ UNCHANGED << year, clock, visits, patients, orders, notes, diagnoses >>

\* DELETE /diagnoses/{id}: soft delete.
DeleteDiagnosisRead(w) ==
    /\ Quiet
    /\ Free(w)
    /\ \E did \in 0..Len(diagnoses) :
         IF ~DiagnosisFound(did)
           THEN Proceed(w, [ Idle EXCEPT !.op = "delete_diagnosis" ],
                        "NotFound")
         ELSE Proceed(w,
           [ Idle EXCEPT !.op = "delete_diagnosis", !.pc = "commit",
               !.id = did, !.loaded = Some(diagnoses[did]),
               !.obj = Some([ diagnoses[did] EXCEPT !.is_deleted = TRUE ]) ],
           "none")
    /\ UNCHANGED << year, clock, visits, patients, orders, notes, diagnoses >>

\* await db.commit() of a request that modified a loaded diagnosis.
DiagnosisCommit(w) ==
    /\ Quiet
    /\ req[w].op \in { "update_diagnosis", "delete_diagnosis" }
    /\ req[w].pc = "commit"
    /\ diagnoses' = [ diagnoses EXCEPT ![req[w].id] =
                        Flush(@, Get(req[w].loaded), Get(req[w].obj)) ]
    /\ Finish(w, "ok")
    /\ UNCHANGED << year, clock, visits, patients, orders, notes, nops >>

\* ------------------------------------------------------------- environment
\* datetime.utcnow() advances.
Tick ==
    /\ Quiet
    /\ clock < MaxTime
    /\ clock' = clock + 1
    /\ UNCHANGED << year, visits, patients, orders, req, last, nops,
                    notes, diagnoses >>

\* datetime.now().year changes.
NewYear ==
    /\ Quiet
    /\ year < StartYear + MaxYearSteps
    /\ year' = year + 1
    /\ UNCHANGED << clock, visits, patients, orders, req, last, nops,
                    notes, diagnoses >>

\* The response of the request that just finished goes out.  last is the
\* observation of one response: nothing else happens while it is held.
Respond ==
    /\ last # NoResponse
    /\ last' = NoResponse
    /\ UNCHANGED << year, clock, visits, patients, orders, req, nops,
                    notes, diagnoses >>

\* ---------------------------------------------------------- specifications
\* The visit service: creation, general update and the status operations,
\* several workers serving requests at the same time.
Next ==
    \/ \E w \in Workers : CreateVisitGenerate(w, MaxLifecycleVisits,
                                              DefaultVisitData(clock))
    \/ \E w \in Workers : CreateVisitCommit(w)
    \/ \E w \in Workers : UpdateStatusRead(w)
    \/ \E w \in Workers : CancelVisitRead(w)
    \/ \E w \in Workers : StartConsultationRead(w)
    \/ \E w \in Workers : CompleteConsultationRead(w)
    \/ \E w \in Workers : UpdateVisitRead(w)
    \/ \E w \in Workers : VisitCommit(w)
    \/ Tick
    \/ Respond

Spec == Init /\ [][Next]_vars

\* The operations that issue identifiers or hide the records carrying them:
\* several workers create records at the same time, across a year change.
NextIds ==
    \/ \E w \in Workers : CreateVisitGenerate(w, MaxVisits,
                                              DefaultVisitData(clock))
    \/ \E w \in Workers : CreateVisitCommit(w)
    \/ \E w \in Workers : CreatePatientGenerate(w)
    \/ \E w \in Workers : CreatePatientCommit(w)
    \/ \E w \in Workers : DeletePatient(w)
    \/ \E w \in Workers : CreateOrderGenerate(w)
    \/ \E w \in Workers : CreateOrderAccession(w)
    \/ \E w \in Workers : CreateOrderCommit(w)
    \/ \E w \in Workers : DeleteOrder(w)
    \/ NewYear
    \/ Respond

SpecIds == Init /\ [][NextIds]_vars

\* No request is running: creations do not overlap in time.
Sequential == \A v \in Workers : ~InFlight(v)

\* The same operations, one request at a time.
NextIdsSeq ==
    \/ \E w \in Workers : Sequential /\ CreateVisitGenerate(w, MaxVisits,
                                              DefaultVisitData(clock))
    \/ \E w \in Workers : CreateVisitCommit(w)
    \/ \E w \in Workers : Sequential /\ CreatePatientGenerate(w)
    \/ \E w \in Workers : CreatePatientCommit(w)
    \/ \E w \in Workers : Sequential /\ DeletePatient(w)
    \/ \E w \in Workers : Sequential /\ CreateOrderGenerate(w)
    \/ \E w \in Workers : CreateOrderAccession(w)
    \/ \E w \in Workers : CreateOrderCommit(w)
    \/ \E w \in Workers : Sequential /\ DeleteOrder(w)
    \/ NewYear
    \/ Respond

SpecIdsSeq == Init /\ [][NextIdsSeq]_vars

\* A year in which all but CapHeadroom of the MaxSequence visit numbers are
\* taken: the visits table holds VIS-<year>-00001 .. one row per number.
InitCap ==
    /\ year = StartYear
    /\ clock = 0
    /\ visits = [ k \in 1..(MaxSequence - CapHeadroom) |->
                    NewVisit(FormatId("VIS", StartYear, k), 1, None, 0,
                             [ priority |-> NORMAL, visit_date |-> 0,
                               visit_type |-> CONSULTATION ]) ]
    /\ patients = [ k \in 1..SeedPatients |->
                      NewPatient(FormatId("CLI", StartYear, k), "p1") ]
    /\ orders = << >>
    /\ notes = << >>
    /\ diagnoses = << >>
    /\ req = [ w \in Workers |-> Idle ]
    /\ last = NoResponse
    /\ nops = 0

\* Visit creation goes on past the last five-digit number.
NextCap ==
    \/ \E w \in Workers : CreateVisitGenerate(w, MaxSequence + 1,
                                              DefaultVisitData(clock))
    \/ \E w \in Workers : CreateVisitCommit(w)
    \/ Respond

SpecCap == InitCap /\ [][NextCap]_vars

\* The database with one visit stored by create_visit.
InitChart ==
    /\ year = StartYear
    /\ clock = 0
    /\ visits = << NewVisit(FormatId("VIS", StartYear, 1), 1, None, 0,
                            [ priority |-> NORMAL, visit_date |-> 0,
                               visit_type |-> CONSULTATION ]) >>
    /\ patients = [ k \in 1..SeedPatients |->
                      NewPatient(FormatId("CLI", StartYear, k), "p1") ]
    /\ orders = << >>
    /\ notes = << >>
    /\ diagnoses = << >>
    /\ req = [ w \in Workers |-> Idle ]
    /\ last = NoResponse
    /\ nops = 0

\* The clinical note endpoints, served concurrently.
NextNotes ==
    \/ \E w \in Workers : CreateNoteRead(w)
    \/ \E w \in Workers : CreateNoteCommit(w)
    \/ \E w \in Workers : UpdateNoteRead(w)
    \/ \E w \in Workers : LockNoteRead(w)
    \/ \E w \in Workers : DeleteNoteRead(w)
    \/ \E w \in Workers : NoteCommit(w)
    \/ Respond

SpecNotes == InitChart /\ [][NextNotes]_vars

\* The diagnosis endpoints, one request at a time.
NextDiagnoses ==
    \/ \E w \in Workers : Sequential /\ CreateDiagnosisRead(w)
    \/ \E w \in Workers : CreateDiagnosisCommit(w)
    \/ \E w \in Workers : Sequential /\ UpdateDiagnosisRead(w)
    \/ \E w \in Workers : Sequential /\ DeleteDiagnosisRead(w)
    \/ \E w \in Workers : DiagnosisCommit(w)
    \/ Respond

SpecDiagnoses == InitChart /\ [][NextDiagnoses]_vars

\* Statistics requests of one worker while another worker creates visits and
\* changes their status, all within one tick of the clock.
Desk == { "w1" }
Registrars == Workers \ Desk

NextStats ==
    \/ \E w \in Registrars : CreateVisitGenerate(w, MaxStatsVisits,
                                                 TypedVisitData(clock))
    \/ \E w \in Registrars : CreateVisitCommit(w)
    \/ \E w \in Registrars : UpdateStatusRead(w)
    \/ \E w \in Registrars : VisitCommit(w)
    \/ \E w \in Desk : StatsTotal(w)
    \/ \E w \in Desk : StatsByStatus(w)
    \/ \E w \in Desk : StatsByType(w)
    \/ \E w \in Desk : StatsWait(w)
    \/ \E w \in Desk : StatsDuration(w)
    \/ Respond

SpecStats == Init /\ [][NextStats]_vars

\* The queue and statistics queries over visits created with any priority
\* and moved through their statuses, one request at a time, all of them
\* served by one worker.
NextQueries ==
    \/ \E w \in Desk : Sequential /\ CreateVisitGenerate(w, MaxQueueVisits,
                                                         AnyVisitData(clock))
    \/ \E w \in Desk : CreateVisitCommit(w)
    \/ \E w \in Desk : Sequential /\ UpdateStatusRead(w)
    \/ \E w \in Desk : VisitCommit(w)
    \/ \E w \in Desk : Sequential /\ GetQueue(w)
    \/ \E w \in Desk : Sequential /\ GetDoctorVisits(w)
    \/ \E w \in Desk : Sequential /\ GetVisitStats(w)
    \/ Tick
    \/ Respond

SpecQueries == Init /\ [][NextQueries]_vars

\* ================================================================== claims
Terminal == { COMPLETED, CANCELLED }

\* The requests that end in update_status.
StatusOps ==
    { "update_status", "cancel_visit", "start_consultation",
      "complete_consultation" }

\* ---- C1: the visit numbers that VisitNumberGenerator.generate returns to
\* create_visit requests running at the same time in the same year are
\* pairwise distinct.
C1_ConcurrentVisitNumbersDistinct ==
    \A w1, w2 \in Workers :
      ( /\ w1 # w2
        /\ req[w1].op = "create_visit" /\ req[w1].pc = "insert"
        /\ req[w2].op = "create_visit" /\ req[w2].pc = "insert"
        /\ Get(req[w1].num).year = Get(req[w2].num).year )
      => Get(req[w1].num) # Get(req[w2].num)

\* ---- C2: an update_status request with target t on a visit it reads in
\* status s goes through only if t is in the transition table entry of s;
\* every other request ends with InvalidTransition; a request that ends with
\* InvalidTransition changes no stored visit.
TransitionTable(s) ==
    CASE s = "registered" -> { "waiting", "cancelled" }
      [] s = "waiting" -> { "in_progress", "cancelled" }
      [] s = "in_progress" -> { "completed", "cancelled" }
      [] s = "completed" -> { }
      [] s = "cancelled" -> { }

C2_Accepted ==
    /\ \A w \in Workers :
         (req[w].op \in StatusOps /\ req[w].pc = "commit")
           => req[w].target \in TransitionTable(req[w].from)
    /\ (last.op \in StatusOps /\ last.result = "ok")
           => last.target \in TransitionTable(last.from)

C2_Rejected ==
    (last.op \in StatusOps /\ last.from \in VisitStatus
       /\ last.target \notin TransitionTable(last.from))
      => last.result = "InvalidTransition"

C3_TerminalStatusNeverChanges ==
    [][ \A v \in DOMAIN visits :
          visits[v].status \in Terminal
            => visits'[v].status = visits[v].status ]_vars

\* ---- C4: of two update_status requests that read the same visit in the
\* same status and target different allowed statuses, at most one succeeds:
\* a status change is committed only if the stored status is still the one
\* the request read (or another request already made the same change).
C4_NoStaleTransitionCommits ==
    [][ \A w \in Workers :
          ( /\ req[w].op \in StatusOps /\ req[w].pc = "commit"
            /\ req'[w].pc = "idle" /\ last'.result = "ok" )
          => visits[req[w].id].status \in { req[w].from, req[w].target } ]_vars

\* ---- C5 (as stated): every request that moves an existing visit to
\* cancelled without a cancellation reason ends with MissingReason (the
\* DELETE endpoint's rejection of an empty reason counted as such), and a
\* cancel request with reason r leaves status cancelled and reason r.
CancelRequest(r) ==
    r.op \in { "update_status", "cancel_visit" } /\ r.target = CANCELLED

C5_CommitsCancel(w) ==
    /\ CancelRequest(req[w]) /\ req[w].pc = "commit"
    /\ req'[w].pc = "idle"

C5_NoReasonOutcome ==
    /\ \A w \in Workers :
         (InFlight(w) /\ CancelRequest(req[w])) => Truthy(req[w].reason)
    /\ (CancelRequest(last) /\ ~Truthy(last.reason)) =>
         /\ last.op = "cancel_visit" => last.result = "ValidationError"
         /\ (last.op = "update_status" /\ last.from \in VisitStatus \ Terminal)
              => last.result = "MissingReason"
         /\ (last.op = "update_status" /\ last.from \in Terminal)
              => last.result = "InvalidTransition"

C6_ReasonIffCancelled ==
    \A v \in DOMAIN visits :
      Truthy(visits[v].cancellation_reason) <=> visits[v].status = CANCELLED

\* ---- C7: the order numbers generated for create_order requests running
\* at the same time in the same year are pairwise distinct, and so are their
\* accession numbers.
C7_ConcurrentOrderNumbersDistinct ==
    \A w1, w2 \in Workers :
      ( /\ w1 # w2
        /\ req[w1].op = "create_order" /\ InFlight(w1)
        /\ req[w2].op = "create_order" /\ InFlight(w2)
        /\ Get(req[w1].num).year = Get(req[w2].num).year )
      => /\ Get(req[w1].num) # Get(req[w2].num)
         /\ (req[w1].pc = "insert" /\ req[w2].pc = "insert")
              => Get(req[w1].acc) # Get(req[w2].acc)

\* ---- C8: no visit number with a sequence value above MaxSequence is ever
\* generated or stored: a creation that finds the year's MaxSequence numbers
\* taken fails (CapacityExceeded) and does not go on with a number.
C8_NoSequenceBeyondCapacity ==
    /\ SelectSeq(visits, LAMBDA row : SeqOf(row.visit_number) > MaxSequence)
         = << >>
    /\ \A w \in Workers :
         (req[w].op = "create_visit" /\ InFlight(w))
           => SeqOf(Get(req[w].num)) <= MaxSequence

\* ---- C9: when creations do not overlap, every identifier stored for a
\* class has a positive sequence value strictly greater than the sequence
\* value of every identifier stored before it for the same class and year,
\* soft-deleted rows included; stored identifiers are never removed or
\* rewritten.
Issued(tbl, col) == { tbl[i][col] : i \in DOMAIN tbl }

C9_Increasing(old, new) ==
    /\ old \subseteq new
    /\ \A id \in new \ old :
         /\ SeqOf(id) >= 1
         /\ \A e \in old : e.year = id.year => SeqOf(e) < SeqOf(id)

C9_SequentialIssueIncreasing ==
    [][ /\ C9_Increasing(Issued(visits, "visit_number"),
                         Issued(visits', "visit_number"))
        /\ C9_Increasing(Issued(patients, "mrn"), Issued(patients', "mrn"))
        /\ C9_Increasing(Issued(orders, "order_number"),
                         Issued(orders', "order_number"))
        /\ C9_Increasing(Issued(orders, "accession_number"),
                         Issued(orders', "accession_number")) ]_vars

\* A patient created after the first patient was soft-deleted.
C9_Witness ==
    /\ last.op = "create_patient" /\ last.result = "ok"
    /\ patients[1].is_deleted
    /\ SeqOf(patients[Len(patients)].mrn) = Len(patients)

\* ---- C10: a generated identifier carries the year of the moment it is
\* generated; the first identifier stored for a class in a year has sequence
\* value 1, whatever was stored for earlier years; storing it leaves every
\* row stored earlier as it was.
C10_FirstOfYear(old, new) ==
    \A id \in new \ old :
      (\A e \in old : e.year # id.year) => SeqOf(id) = 1

C10_Kept(tbl, tbl2) ==
    Len(tbl2) >= Len(tbl) /\ \A i \in DOMAIN tbl : tbl2[i] = tbl[i]

C10_Storing ==
    /\ Len(visits') > Len(visits) => C10_Kept(visits, visits')
    /\ Len(patients') > Len(patients) => C10_Kept(patients, patients')
    /\ Len(orders') > Len(orders) => C10_Kept(orders, orders')
    /\ C10_FirstOfYear(Issued(visits, "visit_number"),
                       Issued(visits', "visit_number"))
    /\ C10_FirstOfYear(Issued(patients, "mrn"), Issued(patients', "mrn"))
    /\ C10_FirstOfYear(Issued(orders, "order_number"),
                       Issued(orders', "order_number"))
    /\ C10_FirstOfYear(Issued(orders, "accession_number"),
                       Issued(orders', "accession_number"))

C10_Generating ==
    \A w \in Workers :
      /\ (IsNone(req[w].num) /\ ~IsNone(req'[w].num))
           => Get(req'[w].num).year = year
      /\ (IsNone(req[w].acc) /\ ~IsNone(req'[w].acc))
           => Get(req'[w].acc).year = year

C10_YearChangeRestartsAtOne == [][C10_Storing /\ C10_Generating]_vars

\* The first visit of the new year stored next to a visit of the old year.
C10_Witness ==
    /\ year = StartYear + 1
    /\ \E i, j \in DOMAIN visits :
         /\ visits[i].visit_number.year = StartYear
         /\ visits[j].visit_number.year = StartYear + 1
         /\ SeqOf(visits[j].visit_number) = 1
         /\ i < j

\* ---- C11: every visit create_visit stores has status registered and a
\* check_in_time, and the stored status of a visit only changes in the commit
\* of a status request that ends ok, to the status the request asked for, a
\* status the transition table admits after the one the request read.
C11_Created ==
    \A v \in DOMAIN visits' :
      v \notin DOMAIN visits
        => /\ visits'[v].status = REGISTERED
           /\ ~IsNone(visits'[v].check_in_time)

C11_Moved ==
    \A v \in DOMAIN visits :
      visits'[v].status # visits[v].status
        => \E w \in Workers :
             /\ req[w].op \in StatusOps /\ req[w].pc = "commit"
             /\ req[w].id = v
             /\ req'[w].pc = "idle" /\ last'.result = "ok"
             /\ visits'[v].status = req[w].target
             /\ req[w].target \in TransitionTable(req[w].from)

C12_StartNeverOverwritten ==
    \A v \in DOMAIN visits :
      ~IsNone(visits[v].consultation_start_time)
        => visits'[v].consultation_start_time
             = visits[v].consultation_start_time

C12_TimesSetOnEntry ==
    \A v \in DOMAIN visits :
      /\ ( visits[v].status # IN_PROGRESS /\ visits'[v].status = IN_PROGRESS )
           => ~IsNone(visits'[v].consultation_start_time)
      /\ ( visits[v].status # COMPLETED /\ visits'[v].status = COMPLETED )
           => ~IsNone(visits'[v].consultation_end_time)

C12_CheckInKept ==
    \A v \in DOMAIN visits :
      visits'[v].check_in_time = visits[v].check_in_time

C12_TransitionTimestamps ==
    [][ C12_StartNeverOverwritten /\ C12_TimesSetOnEntry
          /\ C12_CheckInKept ]_vars

\* ---- C13: a start_consultation that commits on a visit that has an
\* assigned doctor leaves the assignment as it is, whatever doctor_id the
\* request carries; on a visit with none it stores the request's doctor_id
\* (the acting user when the request names none).
C13_StartCommits(w) ==
    /\ req[w].op = "start_consultation" /\ req[w].pc = "commit"
    /\ req'[w].pc = "idle" /\ last'.result = "ok"

C13_DoctorId(w) ==
    IF IsNone(req[w].doctor) THEN Some(UserOf[w]) ELSE req[w].doctor

C13_StartConsultationKeepsAssignment ==
    [][ \A w \in Workers :
          C13_StartCommits(w)
            => LET old == visits[req[w].id].assigned_doctor_id
                   new == visits'[req[w].id].assigned_doctor_id
               IN  IF IsNone(old) THEN new = C13_DoctorId(w) ELSE new = old
      ]_vars

\* ---- C14 (as stated): every request that moves a waiting visit without a
\* doctor to in_progress and names no doctor leaves the visit with a
\* consultation_start_time and with the acting user as its doctor.
C14_MovesUnassigned(w) ==
    /\ req[w].op \in StatusOps /\ req[w].pc = "commit"
    /\ req[w].target = IN_PROGRESS
    /\ req[w].from = WAITING
    /\ IsNone(Get(req[w].loaded).assigned_doctor_id)
    /\ IsNone(req[w].doctor)
    /\ req'[w].pc = "idle" /\ last'.result = "ok"

C14_Started(w) ==
    /\ ~IsNone(visits'[req[w].id].consultation_start_time)
    /\ visits'[req[w].id].status = IN_PROGRESS

C14_EveryOperationAssignsActingUser ==
    [][ \A w \in Workers :
          C14_MovesUnassigned(w)
            => /\ C14_Started(w)
               /\ visits'[req[w].id].assigned_doctor_id = Some(UserOf[w])
      ]_vars

\* ---- C14 (amended): start_consultation with no doctor_id on a waiting
\* visit without a doctor leaves it in_progress with a
\* consultation_start_time and the acting user as its doctor; update_status
\* with target in_progress sets the start time and no doctor.
C14_StartConsultationAssignsActingUser ==
    [][ \A w \in Workers :
          C14_MovesUnassigned(w)
            => /\ C14_Started(w)
               /\ req[w].op = "start_consultation"
                    => visits'[req[w].id].assigned_doctor_id
                         = Some(UserOf[w])
               /\ req[w].op = "update_status"
                    => visits'[req[w].id].assigned_doctor_id
                         = visits[req[w].id].assigned_doctor_id
      ]_vars

C14_Witness ==
    /\ last.op = "start_consultation" /\ last.result = "ok"
    /\ last.from = WAITING
    /\ \E w \in Workers :
         /\ visits[last.id].assigned_doctor_id = Some(UserOf[w])
         /\ visits[last.id].updated_by = Some(UserOf[w])
         /\ visits[last.id].status = IN_PROGRESS
         /\ ~IsNone(visits[last.id].consultation_start_time)

\* ---- C15: update_visit on a visit that is completed or cancelled ends with
\* ImmutableState and the request goes no further: it never reaches its
\* commit, and the step that rejects it changes no stored visit.
C15_Rejected ==
    /\ ( last.op = "update_visit" /\ last.from \in Terminal )
         => last.result = "ImmutableState"
    /\ \A w \in Workers :
         req[w].op = "update_visit" => req[w].from \notin Terminal

C15_NothingWritten ==
    ( last'.op = "update_visit" /\ last'.result = "ImmutableState" )
      => visits' = visits

C15_TerminalVisitNotEditable ==
    []C15_Rejected /\ [][C15_NothingWritten]_vars

C15_Witness ==
    /\ last.op = "update_visit" /\ last.result = "ImmutableState"
    /\ last.id \in DOMAIN visits
    /\ visits[last.id].status \in Terminal

\* ---- C16: of update_visit and update_status requests running together on
\* one visit, a request whose read is stale does not commit: a commit finds
\* the visit as the request loaded it, and so no update_visit commits on a
\* visit whose stored status is completed or cancelled.
C16_Commits(w) ==
    /\ req[w].op \in { "update_visit", "update_status" }
    /\ req[w].pc = "commit"
    /\ req'[w].pc = "idle" /\ last'.result = "ok"

C16_StaleWritesRejected ==
    [][ \A w \in Workers :
          C16_Commits(w)
            => /\ visits[req[w].id] = Get(req[w].loaded)
               /\ req[w].op = "update_visit"
                    => visits[req[w].id].status \notin Terminal
      ]_vars

\* ---- C17: in every result of get_queue and get_doctor_visits, a visit
\* listed before another has a rank (emergency 1, urgent 2, normal 3) that is
\* not greater and, with equal ranks, a check_in_time that is not later; an
\* emergency visit is listed before every urgent or normal one of the result,
\* e.g. waiting V1 (urgent, earlier) and V2 (emergency, later) come as V2, V1.
C17_Rank(p) == IF p = "emergency" THEN 1 ELSE IF p = "urgent" THEN 2 ELSE 3

C17_QueueResult ==
    last.op \in { "get_queue", "get_doctor_visits" } /\ last.result = "ok"

C17_Position(v) == CHOOSE i \in DOMAIN last.body : last.body[i] = v

C17_Listed(v) == \E i \in DOMAIN last.body : last.body[i] = v

C17_OrderedByRankThenCheckIn ==
    C17_QueueResult
      => /\ \A i, j \in DOMAIN last.body :
              i < j
                => LET a == visits[last.body[i]]
                       b == visits[last.body[j]]
                   IN  /\ C17_Rank(a.priority) <= C17_Rank(b.priority)
                       /\ C17_Rank(a.priority) = C17_Rank(b.priority)
                            => Get(a.check_in_time) <= Get(b.check_in_time)
         /\ \A v1, v2 \in DOMAIN visits :
              ( /\ last.op = "get_queue" /\ IsNone(last.filter)
                /\ visits[v1].status = WAITING /\ visits[v2].status = WAITING
                /\ ~visits[v1].is_deleted /\ ~visits[v2].is_deleted
                /\ visits[v1].visit_date = DateOf(clock)
                /\ visits[v2].visit_date = DateOf(clock)
                /\ visits[v1].priority = "urgent"
                /\ visits[v2].priority = "emergency" )
                => /\ C17_Listed(v1) /\ C17_Listed(v2)
                   /\ C17_Position(v2) < C17_Position(v1)

C17_Witness ==
    /\ last.op = "get_queue" /\ last.result = "ok"
    /\ last.body = << 2, 1 >>
    /\ visits[1].priority = "urgent" /\ visits[2].priority = "emergency"
    /\ visits[1].status = WAITING /\ visits[2].status = WAITING
    /\ Get(visits[1].check_in_time) < Get(visits[2].check_in_time)

\* ---- C18 (as stated): every visit get_queue returns is not deleted, dated
\* today and registered or waiting, whatever the status filter.
C18_Queued(v) ==
    /\ ~visits[v].is_deleted
    /\ visits[v].visit_date = DateOf(clock)

C19_QueueResultDetermined ==
    ( last.op = "get_queue" /\ last.result = "ok" )
      => \A res \in get_queue(visits, DateOf(clock), last.filter) :
           res = last.body

\* ---- C20: the average wait of get_visit_stats is null exactly when no
\* visit of the date range has both check_in_time and
\* consultation_start_time, and otherwise a number, the mean wait of those
\* visits to one decimal (in tenths of a minute here), also when it is 0; the
\* same for the average consultation duration with consultation_start_time
\* and consultation_end_time.
C20_From == IF IsNone(last.range[1]) THEN DateOf(clock) ELSE Get(last.range[1])

C20_To == IF IsNone(last.range[2]) THEN DateOf(clock) ELSE Get(last.range[2])

C20_InRange ==
    { v \in DOMAIN visits :
        /\ ~visits[v].is_deleted
        /\ C20_From <= visits[v].visit_date
        /\ visits[v].visit_date <= C20_To }

C20_WithWait ==
    { v \in C20_InRange :
        /\ ~IsNone(visits[v].check_in_time)
        /\ ~IsNone(visits[v].consultation_start_time) }

C20_WithDuration ==
    { v \in C20_InRange :
        /\ ~IsNone(visits[v].consultation_start_time)
        /\ ~IsNone(visits[v].consultation_end_time) }

C20_Wait(v) ==
    Get(visits[v].consultation_start_time) - Get(visits[v].check_in_time)

C20_Duration(v) ==
    Get(visits[v].consultation_end_time)
      - Get(visits[v].consultation_start_time)

\* r, in tenths, is the sum total of n values divided by n and rounded to the
\* nearest tenth.
C20_IsMean(r, total, n) ==
    /\ 2 * (10 * total - r * n) <= n
    /\ 2 * (r * n - 10 * total) <= n

C20_NullOnlyWithoutQualifyingVisit ==
    ( last.op = "get_visit_stats" /\ last.result = "ok" )
      => /\ IsNone(last.body.average_wait_time_minutes)
              <=> C20_WithWait = { }
         /\ C20_WithWait # { }
              => C20_IsMean(Get(last.body.average_wait_time_minutes),
                   SumOver([ v \in C20_WithWait |-> C20_Wait(v) ],
                           C20_WithWait),
                   Cardinality(C20_WithWait))
         /\ IsNone(last.body.average_consultation_minutes)
              <=> C20_WithDuration = { }
         /\ C20_WithDuration # { }
              => C20_IsMean(Get(last.body.average_consultation_minutes),
                   SumOver([ v \in C20_WithDuration |-> C20_Duration(v) ],
                           C20_WithDuration),
                   Cardinality(C20_WithDuration))

\* ---- C21: a creation whose identifier collides with a stored one at insert
\* is tried again with a fresh number (up to three attempts): a request that
\* meets its first collision does not end with the unique-constraint error.
\* Every request makes one insert here, so each collision is a first one.
C21_Collides(w) ==
    \/ /\ req[w].op = "create_visit"
       /\ \E i \in DOMAIN visits : visits[i].visit_number = Get(req[w].num)
    \/ /\ req[w].op = "create_patient"
       /\ \E i \in DOMAIN patients : patients[i].mrn = Get(req[w].num)
    \/ /\ req[w].op = "create_order"
       /\ \E i \in DOMAIN orders :
            \/ orders[i].order_number = Get(req[w].num)
            \/ orders[i].accession_number = Get(req[w].acc)

C21_CollisionIsRetried ==
    [][ \A w \in Workers :
          ( req[w].pc = "insert" /\ req'[w].pc = "idle" /\ C21_Collides(w) )
            => last'.result # "IntegrityError" ]_vars

\* ---- C22: create_visit for a patient that is missing or soft-deleted, or
\* with an assigned doctor that is missing or inactive, ends with NotFound
\* and stores nothing; it uses up no number: with one request at a time the
\* stored visits of a year carry the sequence values 1, 2, 3, ... without a
\* gap, whatever requests failed in between.
C22_BadReference(r) ==
    \/ r.id \notin DOMAIN patients
    \/ patients[r.id].is_deleted
    \/ r.doctor \notin { None } \cup { Some(u) : u \in Users }

C22_OnlyValidCreationsGoOn ==
    \A w \in Workers :
      ( req[w].op = "create_visit" /\ InFlight(w) ) => ~C22_BadReference(req[w])

C22_NoGap ==
    \A i \in DOMAIN visits :
      SeqOf(visits[i].visit_number)
        = Cardinality({ j \in 1..i : visits[j].visit_number.year
                                       = visits[i].visit_number.year })

C22_NotFoundStoresNothing ==
    ( last'.op = "create_visit" /\ last'.result = "NotFound" )
      => /\ visits' = visits
         /\ \A w \in Workers : ~InFlight(w)'

C22_FailedCreationConsumesNoNumber ==
    /\ [](C22_OnlyValidCreationsGoOn /\ C22_NoGap)
    /\ [][C22_NotFoundStoresNothing]_vars

\* A creation that fails after a visit was stored.
C22_Witness ==
    /\ last.op = "create_visit" /\ last.result = "NotFound"
    /\ Len(visits) >= 1

\* ---- C23: whatever the interleaving of create_note requests, every visit
\* has at most one non-deleted clinical note with is_primary = true.
C23_AtMostOnePrimaryNote ==
    \A v \in DOMAIN visits :
      Cardinality({ n \in DOMAIN notes :
                      /\ notes[n].visit_id = v
                      /\ notes[n].is_primary
                      /\ ~notes[n].is_deleted }) <= 1

\* ---- C24: while a stored note is locked, no step changes its content or
\* deletes it; an update_note or delete_note request that finds the note
\* locked is rejected (403) and goes no further; a locked note becomes
\* unlocked only through a request of its author.
C24_LockedNoteKept ==
    \A n \in DOMAIN notes :
      notes[n].is_locked
        => /\ notes'[n].content = notes[n].content
           /\ notes'[n].is_deleted = notes[n].is_deleted

C24_LockedRequestRejected ==
    \A w \in Workers :
      ( /\ req'[w].op \in { "update_note", "delete_note" }
        /\ req'[w].pc = "commit" /\ req[w].pc = "idle" )
        => ~notes[req'[w].id].is_locked

C24_UnlockedByAuthor ==
    \A n \in DOMAIN notes :
      ( notes[n].is_locked /\ ~notes'[n].is_locked )
        => \E w \in Workers :
             /\ req[w].op = "unlock_note" /\ req[w].id = n
             /\ req[w].user = notes[n].created_by

C24_LockedNoteImmutable ==
    [][ C24_LockedNoteKept /\ C24_LockedRequestRejected
          /\ C24_UnlockedByAuthor ]_vars

\* ---- C25 (as stated): from every status a transition to cancelled that
\* carries a reason is permitted: no such request on an existing visit is
\* rejected as an invalid transition.
C25_CancelWithReason ==
    /\ CancelRequest(last)
    /\ Truthy(last.reason)
    /\ last.from \in VisitStatus

C26_AtMostOnePrimaryDiagnosis ==
    \A v \in DOMAIN visits :
      Cardinality({ d \in DOMAIN diagnoses :
                      /\ diagnoses[d].visit_id = v
                      /\ diagnoses[d].diagnosis_type = "primary"
                      /\ ~diagnoses[d].is_deleted }) <= 1

\* ---- C27: a start_consultation on a visit whose status does not allow
\* in_progress (registered, in_progress, completed or cancelled) fails, and
\* the step in which it fails leaves every stored visit as it was, the
\* assigned doctor included: the assignment made before the status check is
\* not persisted.
C27_StartRefused ==
    (/\ last # NoResponse
     /\ last.op = "start_consultation"
     /\ last.result \notin { "NotFound" }
     /\ last.from \in { REGISTERED, IN_PROGRESS, COMPLETED, CANCELLED })
      => last.result = "InvalidTransition"

C27_FailedStartStoresNothing ==
    (/\ last = NoResponse
     /\ last' # NoResponse
     /\ last'.op = "start_consultation"
     /\ last'.result = "InvalidTransition")
      => /\ visits' = visits
         /\ visits'[last'.id].assigned_doctor_id
              = visits[last'.id].assigned_doctor_id

C28_EndIffCompleted ==
    \A v \in DOMAIN visits :
      ~IsNone(visits[v].consultation_end_time)
        <=> visits[v].status = COMPLETED

C28_StartMatchesStatus ==
    \A v \in DOMAIN visits :
      /\ visits[v].status \in { IN_PROGRESS, COMPLETED }
           => ~IsNone(visits[v].consultation_start_time)
      /\ visits[v].status \in { REGISTERED, WAITING }
           => IsNone(visits[v].consultation_start_time)

C28_CancelledStartOnlyFromInProgress ==
    \A v \in DOMAIN visits :
      /\ (visits'[v].status = CANCELLED /\ visits[v].status # CANCELLED
          /\ ~IsNone(visits'[v].consultation_start_time))
           => visits[v].status = IN_PROGRESS
      /\ (visits'[v].status = CANCELLED /\ visits[v].status = CANCELLED)
           => visits'[v].consultation_start_time
                = visits[v].consultation_start_time

C28_TimestampsMatchStatus ==
    /\ [](C28_EndIffCompleted /\ C28_StartMatchesStatus)
    /\ [][C28_CancelledStartOnlyFromInProgress]_vars

\* ---- C29: with a clock that never goes backwards, every stored visit has
\* check_in_time <= consultation_start_time <= consultation_end_time for
\* those of the three that are set, whatever visit operations ran; so no wait
\* time and no consultation duration computed from them is negative.
C29_Ordered(a, b) == IsNone(a) \/ IsNone(b) \/ Get(a) <= Get(b)

C30_CountsAddUp ==
    (/\ last # NoResponse
     /\ last.op = "get_visit_stats"
     /\ last.result = "ok"
     /\ "by_status" \in DOMAIN last.body)
      => /\ SumOver(last.body.by_status, DOMAIN last.body.by_status)
              = last.body.total
         /\ SumOver(last.body.by_type, DOMAIN last.body.by_type)
              = last.body.total
====
